---- MODULE Spec2Model ----
(***************************************************************************)
(* Metadata reconciliation of StashAppDataManager: the Database context    *)
(* manager (db/db_manager.py), the DAOs of models/, the synchronization    *)
(* steps and process_folder of refresh_stash_scene.py.                     *)
(*                                                                         *)
(* The database is modelled twice: disk is what has been committed, work   *)
(* is what the one shared sqlite3 connection sees (disk plus the writes of *)
(* the open transaction).  Python exceptions are results: a step or a DAO  *)
(* call returns a value or raises, and an exception that leaves the body   *)
(* of the `with Database(...)` block makes __exit__ roll back.             *)
(***************************************************************************)
EXTENDS Integers, Sequences, FiniteSets, Bags, TLC

(***************************************************************************)
(* Bounds of the model.                                                    *)
(***************************************************************************)
MaxRows == 2        \* rows a natural-key table (studios, performers) may hold
MaxCommits == 1     \* commits counted inside one Database context
MaxIds == 2         \* rows a DAO under test inserts into its table

(***************************************************************************)
(* Strings.  A string is a sequence of one-character strings so that case  *)
(* folding and trimming are computed; Python None is the one-element       *)
(* sequence NoneStr, SQL NULL / None for an id is NoId.                    *)
(***************************************************************************)
NoneStr == <<"None">>
NoId == 0

Acme == <<"A", "c">>
AcmeVar == <<"A", "C", " ">>      \* "Acme" in another case, trailing blank
Drama == <<"D">>
Comedy == <<"K">>
Ann == <<"N">>
OldTitle == <<"o">>
NewTitle == <<"T">>
Code1 == <<"X", "1">>
Media1 == <<"X", "1", ".", "m">>  \* basename of a catalogued media file
Media2 == <<"Y", "2", ".", "m">>  \* basename of a media file never scanned
Date0 == <<"0">>                  \* a release date the scanner stored
Date1 == <<"9">>
OldBlob == <<"4">>                \* checksum of the cover the scene has

LowerChar(c) ==
    CASE c = "A" -> "a"
      [] c = "C" -> "c"
      [] c = "D" -> "d"
      [] c = "K" -> "k"
      [] c = "N" -> "n"
      [] c = "T" -> "t"
      [] c = "X" -> "x"
      [] c = "Y" -> "y"
      [] OTHER -> c

Lower(s) == [i \in 1..Len(s) |-> LowerChar(s[i])]

RECURSIVE TrimLeft(_)
TrimLeft(s) == IF s # <<>> /\ Head(s) = " " THEN TrimLeft(Tail(s)) ELSE s

RECURSIVE TrimRight(_)
TrimRight(s) ==
    IF s # <<>> /\ s[Len(s)] = " " THEN TrimRight(SubSeq(s, 1, Len(s) - 1)) ELSE s

\* The case-insensitive, whitespace-normalized form of a natural key.
Norm(s) == Lower(TrimRight(TrimLeft(s)))

(***************************************************************************)
(* Tables.  A natural-key table is the sequence of its names, the row id   *)
(* being the position (AUTOINCREMENT, no row is ever deleted here).  An    *)
(* association table is a bag of rows, so that a duplicate row is          *)
(* representable; its composite key is the first two columns.              *)
(***************************************************************************)
SceneIds == {1}
TagIds == {1}
PerformerIds == {1}
GalleryIds == {1}
GroupIds == {1}
FileIds == {1}
SceneIndexes == {NoId, 1}        \* groups_scenes.scene_index, NoId is NULL

KeyOf(row) == <<row[1], row[2]>>

RowsWithKey(table, key) == {r \in BagToSet(table) : KeyOf(r) = key}

\* Whether a row of the table equals the key in SQL: NULL equals nothing,
\* so a key with a NULL neither conflicts with a row nor is found by
\* WHERE k1 = ? AND k2 = ?.
HasKey(table, key) ==
    key[1] # NoId /\ key[2] # NoId /\ RowsWithKey(table, key) # {}

AddRow(table, row) == table (+) SetToBag({row})

DropKey(table, key) ==
    [r \in BagToSet(table) \ RowsWithKey(table, key) |-> table[r]]

\* INSERT INTO a table without primary key.
SqlInsert_NoConstraint(table, row) ==
    [table |-> AddRow(table, row), rowcount |-> 1, error |-> FALSE]

\* INSERT INTO a table with PRIMARY KEY(k1, k2): a conflict is an
\* sqlite3.IntegrityError and the statement changes nothing.
SqlInsert(table, row) ==
    IF HasKey(table, KeyOf(row))
    THEN [table |-> table, rowcount |-> 0, error |-> TRUE]
    ELSE [table |-> AddRow(table, row), rowcount |-> 1, error |-> FALSE]

\* INSERT OR IGNORE: a conflict skips the row, rowcount 0, no error.
SqlInsertOrIgnore(table, row) ==
    IF HasKey(table, KeyOf(row))
    THEN [table |-> table, rowcount |-> 0, error |-> FALSE]
    ELSE [table |-> AddRow(table, row), rowcount |-> 1, error |-> FALSE]

\* INSERT OR REPLACE: the conflicting row is deleted, the new one inserted.
SqlInsertOrReplace(table, row) ==
    [table |-> AddRow(DropKey(table, KeyOf(row)), row),
     rowcount |-> 1, error |-> FALSE]

(***************************************************************************)
(* Association DAOs.  Each returns the database after the call and what    *)
(* the caller sees: ret is the printed Python value, exc the exception     *)
(* that leaves the method ("" when none does).                             *)
(***************************************************************************)
DaoResult(db, ret, exc) == [db |-> db, ret |-> ret, exc |-> exc]

RowCount(n) == IF n = 0 THEN "0" ELSE "1"

\* Variant of ScenesTagsDAO.insert without its except clauses.
ScenesTagsDAO_insert_no_except(db, scene_id, tag_id) ==
    LET r == SqlInsert(db.scenes_tags, <<scene_id, tag_id>>)
    IN  DaoResult([db EXCEPT !.scenes_tags = r.table],
                  IF r.error THEN "" ELSE "True",
                  IF r.error THEN "IntegrityError" ELSE "")

ScenesTagsDAO_insert(db, scene_id, tag_id) ==
    LET r == SqlInsert(db.scenes_tags, <<scene_id, tag_id>>)
    IN  DaoResult([db EXCEPT !.scenes_tags = r.table],
                  IF r.error THEN "False" ELSE "True", "")

ScenesTagsDAO_update_or_insert(db, scene_id, tag_id) ==
    LET r == SqlInsertOrIgnore(db.scenes_tags, <<scene_id, tag_id>>)
    IN  DaoResult([db EXCEPT !.scenes_tags = r.table], RowCount(r.rowcount), "")

ScenesTagsDAO_get_by_ids(db, scene_id, tag_id) ==
    HasKey(db.scenes_tags, <<scene_id, tag_id>>)

PerformersScenesDAO_insert(db, performer_id, scene_id) ==
    LET r == SqlInsertOrIgnore(db.performers_scenes, <<performer_id, scene_id>>)
    IN  DaoResult([db EXCEPT !.performers_scenes = r.table],
                  RowCount(r.rowcount), "")

PerformersScenesDAO_get_by_ids(db, scene_id, performer_id) ==
    HasKey(db.performers_scenes, <<performer_id, scene_id>>)

ScenesGalleriesDAO_insert(db, scene_id, gallery_id) ==
    LET r == SqlInsertOrIgnore(db.scenes_galleries, <<scene_id, gallery_id>>)
    IN  DaoResult([db EXCEPT !.scenes_galleries = r.table],
                  RowCount(r.rowcount), "")

GroupsScenesDAO_add_scene_to_group(db, group_id, scene_id, scene_index) ==
    LET r == SqlInsertOrReplace(db.groups_scenes,
                                <<group_id, scene_id, scene_index>>)
    IN  DaoResult([db EXCEPT !.groups_scenes = r.table], RowCount(r.rowcount), "")

GroupsScenesDAO_insert(db, scene_id, group_id) ==
    LET r == SqlInsertOrReplace(db.groups_scenes, <<group_id, scene_id, NoId>>)
    IN  DaoResult([db EXCEPT !.groups_scenes = r.table], RowCount(r.rowcount), "")

\* No try/except: the IntegrityError of a duplicate pair reaches the caller.
ScenesFilesDAO_insert(db, scene_id, file_id, primary) ==
    LET r == SqlInsert(db.scenes_files, <<scene_id, file_id, primary>>)
    IN  IF r.error
        THEN DaoResult(db, "", "IntegrityError")
        ELSE DaoResult([db EXCEPT !.scenes_files = r.table],
                       RowCount(r.rowcount), "")

\* fetchone() of SELECT ... WHERE file_id = ?: NoId when there is no row.
ScenesFilesDAO_get_by_file_id(db, file_id) ==
    LET rows == {r \in BagToSet(db.scenes_files) : r[2] = file_id}
    IN  IF rows = {} THEN NoId
        ELSE (CHOOSE r \in rows : \A q \in rows : r[1] <= q[1])[1]

(***************************************************************************)
(* What exists at run time.  Attribute access on a Python object raises    *)
(* AttributeError when the class does not define the attribute, and a SQL  *)
(* statement that calls a function the connection does not know raises     *)
(* sqlite3.OperationalError when it is prepared.                           *)
(***************************************************************************)
\* Attributes of the object bound by `with Database(path) as dbm`.
DatabaseAttrs ==
    {"db_path", "_conn", "blobs", "files", "performers", "performers_scenes",
     "scenes", "scenes_files", "scenes_galleries", "scenes_tags", "studios",
     "tags", "folders", "galleries"}

ScenesDAOAttrs ==
    {"db_path", "_conn", "_cursor", "_execute", "_row_to_scenes", "create",
     "get_by_id", "get_all", "update", "delete"}

TagsDAOAttrs ==
    {"_conn", "_cursor", "_execute", "_row_to_tags", "create_table", "insert",
     "get_by_id", "get_all", "update", "delete"}

ScenesGalleriesDAOAttrs ==
    {"_conn", "_cursor", "_execute", "_row_to_scenes_galleries",
     "create_table", "insert", "get_by_scene_id", "get_by_gallery_id", "delete"}

MovieAttrs ==
    {"title", "runtime", "mpaa", "uniqueid", "genres", "tags", "country",
     "premiered", "studio", "actors", "director"}

\* SQL functions the statements of the DAOs call that sqlite3.connect()
\* provides; no create_function() call registers any other.
SqlFunctions == {"upper"}

\* Database.__enter__ builds ScenesDAO(self._conn); ScenesDAO.__init__ sets
\* _cursor = None and only ScenesDAO.__enter__, never called, opens one.
ScenesDAO_cursor_open == FALSE

(***************************************************************************)
(* Entity DAOs.                                                            *)
(***************************************************************************)
\* The values of the rows of a table.
Values(rows) == {rows[i] : i \in 1..Len(rows)}

\* Row ids, ascending from `from`, of the rows whose value is in wanted.
RECURSIVE MatchingIds(_, _, _)
MatchingIds(rows, wanted, from) ==
    IF from > Len(rows) THEN <<>>
    ELSE (IF rows[from] \in wanted THEN <<from>> ELSE <<>>)
         \o MatchingIds(rows, wanted, from + 1)

FirstOrNoId(ids) == IF ids = <<>> THEN NoId ELSE ids[1]

\* SELECT * FROM studios WHERE name = ?, fetchone(): the comparison is the
\* exact one of the BINARY collation; the id of the row, NoId for None.
StudiosDAO_get_by_name(db, studio_name) ==
    FirstOrNoId(MatchingIds(db.studios, {studio_name}, 1))

\* INSERT INTO studios: name is NOT NULL, the sqlite3.Error is caught and
\* None returned; otherwise lastrowid.
StudiosDAO_insert(db, studio_name) ==
    IF studio_name = NoneStr
    THEN [db |-> db, id |-> NoId, exc |-> ""]
    ELSE [db |-> [db EXCEPT !.studios = Append(@, studio_name)],
          id |-> Len(db.studios) + 1, exc |-> ""]

\* INSERT INTO tags, with the same try/except as StudiosDAO.insert.
TagsDAO_insert(db, tag_name) ==
    IF tag_name = NoneStr
    THEN [db |-> db, id |-> NoId, exc |-> ""]
    ELSE [db |-> [db EXCEPT !.tags = Append(@, tag_name)],
          id |-> Len(db.tags) + 1, exc |-> ""]

\* SELECT * FROM performers WHERE NORMALIZE(name) = NORMALIZE(?), inside
\* try/except sqlite3.Error that returns list().
PerformersDAO_get_by_name(db, performers_name) ==
    LET wanted == {n \in Values(db.performers) : Norm(n) = Norm(performers_name)}
    IN  IF "NORMALIZE" \notin SqlFunctions THEN <<>>
        ELSE MatchingIds(db.performers, wanted, 1)

\* INSERT INTO performers without try/except: a None name raises.
PerformersDAO_insert(db, performers_name) ==
    IF performers_name = NoneStr
    THEN [db |-> db, id |-> NoId, exc |-> "IntegrityError"]
    ELSE [db |-> [db EXCEPT !.performers = Append(@, performers_name)],
          id |-> Len(db.performers) + 1, exc |-> ""]

\* SELECT * FROM files WHERE NORMALIZE(files.basename) is NORMALIZE(?),
\* no try/except.  The id of the first row, NoId when there is none.
FilesDAO_get_by_basename(db, basename) ==
    LET wanted == {n \in Values(db.files) : Norm(n) = Norm(basename)}
    IN  IF "NORMALIZE" \notin SqlFunctions
        THEN [id |-> NoId, exc |-> "OperationalError"]
        ELSE [id |-> FirstOrNoId(MatchingIds(db.files, wanted, 1)), exc |-> ""]

\* _execute raises RuntimeError when the DAO has no cursor.
ScenesDAO_get_by_id(db, scenes_id) ==
    IF ~ScenesDAO_cursor_open
    THEN [id |-> NoId, exc |-> "RuntimeError"]
    ELSE [id |-> IF scenes_id \in DOMAIN db.scenes THEN scenes_id ELSE NoId,
          exc |-> ""]

\* _row_to_scenes: the Scenes object of a row.
RowToScenes(db, id) ==
    [id |-> id, title |-> db.scenes[id].title, date |-> db.scenes[id].date,
     studio_id |-> db.scenes[id].studio_id, code |-> db.scenes[id].code,
     director |-> db.scenes[id].director,
     cover_blob |-> db.scenes[id].cover_blob]

\* UPDATE scenes SET every column WHERE id = ?; ValueError without an id.
ScenesDAO_update(db, scenes) ==
    IF scenes.id = NoId THEN [db |-> db, exc |-> "ValueError"]
    ELSE IF ~ScenesDAO_cursor_open THEN [db |-> db, exc |-> "RuntimeError"]
    ELSE IF scenes.id \notin DOMAIN db.scenes THEN [db |-> db, exc |-> ""]
    ELSE [db |-> [db EXCEPT !.scenes[scenes.id] =
                     [title |-> scenes.title, date |-> scenes.date,
                      studio_id |-> scenes.studio_id, code |-> scenes.code,
                      director |-> scenes.director,
                      cover_blob |-> scenes.cover_blob]],
          exc |-> ""]

\* INSERT INTO blobs (checksum PRIMARY KEY): both sqlite3 errors are caught.
BlobsDAO_insert(db, checksum) ==
    IF checksum \in db.blobs
    THEN DaoResult(db, "False", "")
    ELSE DaoResult([db EXCEPT !.blobs = @ \cup {checksum}], "True", "")

\* SELECT * FROM groups WHERE name = ?, fetchone().
GroupsDAO_get_by_name(db, group_name) ==
    FirstOrNoId(MatchingIds(db.groups, {group_name}, 1))

\* INSERT INTO groups without try/except.
GroupsDAO_insert(db, group_name) ==
    IF group_name = NoneStr
    THEN [db |-> db, id |-> NoId, exc |-> "IntegrityError"]
    ELSE [db |-> [db EXCEPT !.groups = Append(@, group_name)],
          id |-> Len(db.groups) + 1, exc |-> ""]

GroupsScenesDAO_get_by_ids(db, scene_id, group_id) ==
    HasKey(db.groups_scenes, <<group_id, scene_id>>)

\* TagsDAO defines no get_by_name; update_scene_tags expects a list of the
\* rows of that name.  The lookup by normalized natural key.
TagsDAO_get_by_name(db, tag_name) ==
    LET wanted == {n \in Values(db.tags) : Norm(n) = Norm(tag_name)}
    IN  MatchingIds(db.tags, wanted, 1)

IsSuffix(suffix, s) ==
    /\ Len(suffix) <= Len(s)
    /\ SubSeq(s, Len(s) - Len(suffix) + 1, Len(s)) = suffix

\* The ids, ascending, of the folders rows whose path LIKE '%token' selects.
FoldersLike(db, token) ==
    LET wanted == {path \in Values(db.folders) :
                       IsSuffix(Lower(token), Lower(path))}
    IN  MatchingIds(db.folders, wanted, 1)

\* SELECT * FROM folders WHERE upper(NORMALIZE(path)) LIKE
\* upper(NORMALIZE(?)), the pattern being '%' followed by a token: the
\* folders whose path ends with the token, whatever the case.
FoldersDAO_get_by_path_pattern(db, token) ==
    IF "NORMALIZE" \notin SqlFunctions
    THEN [ids |-> <<>>, exc |-> "OperationalError"]
    ELSE [ids |-> FoldersLike(db, token), exc |-> ""]

\* SELECT * FROM galleries WHERE folder_id = ?; a gallery row is its folder.
GalleriesDAO_get_by_folder_id(db, folder_id) ==
    MatchingIds(db.galleries, {folder_id}, 1)

(***************************************************************************)
(* update of the DAOs.  An object is its id and the column the tables of   *)
(* the model hold; a name of NoneStr violates NOT NULL.                    *)
(***************************************************************************)
\* UPDATE t SET column = value WHERE id = ?: the table and the rowcount.
SqlUpdateById(rows, id, value) ==
    IF id \in DOMAIN rows
    THEN [rows |-> [rows EXCEPT ![id] = value], rowcount |-> 1]
    ELSE [rows |-> rows, rowcount |-> 0]

\* ValueError without an id; the sqlite3.Error of the UPDATE is caught and
\* 0 returned.
StudiosDAO_update(db, id, name) ==
    LET u == SqlUpdateById(db.studios, id, name)
    IN  IF id = NoId THEN DaoResult(db, "", "ValueError")
        ELSE IF name = NoneStr /\ u.rowcount > 0 THEN DaoResult(db, "0", "")
        ELSE DaoResult([db EXCEPT !.studios = u.rows], RowCount(u.rowcount), "")

TagsDAO_update(db, id, name) ==
    LET u == SqlUpdateById(db.tags, id, name)
    IN  IF id = NoId THEN DaoResult(db, "", "ValueError")
        ELSE IF name = NoneStr /\ u.rowcount > 0 THEN DaoResult(db, "0", "")
        ELSE DaoResult([db EXCEPT !.tags = u.rows], RowCount(u.rowcount), "")

\* ValueError without an id; no try/except around the UPDATE.
PerformersDAO_update(db, id, name) ==
    LET u == SqlUpdateById(db.performers, id, name)
    IN  IF id = NoId THEN DaoResult(db, "", "ValueError")
        ELSE IF name = NoneStr /\ u.rowcount > 0
        THEN DaoResult(db, "", "IntegrityError")
        ELSE DaoResult([db EXCEPT !.performers = u.rows],
                       RowCount(u.rowcount), "")

GroupsDAO_update(db, id, name) ==
    LET u == SqlUpdateById(db.groups, id, name)
    IN  IF id = NoId THEN DaoResult(db, "", "ValueError")
        ELSE IF name = NoneStr /\ u.rowcount > 0
        THEN DaoResult(db, "", "IntegrityError")
        ELSE DaoResult([db EXCEPT !.groups = u.rows], RowCount(u.rowcount), "")

FilesDAO_update(db, id, basename) ==
    LET u == SqlUpdateById(db.files, id, basename)
    IN  IF id = NoId THEN DaoResult(db, "", "ValueError")
        ELSE DaoResult([db EXCEPT !.files = u.rows], RowCount(u.rowcount), "")

FoldersDAO_update(db, id, path) ==
    LET u == SqlUpdateById(db.folders, id, path)
    IN  IF id = NoId THEN DaoResult(db, "", "ValueError")
        ELSE DaoResult([db EXCEPT !.folders = u.rows], RowCount(u.rowcount), "")

GalleriesDAO_update(db, id, folder_id) ==
    LET u == SqlUpdateById(db.galleries, id, folder_id)
    IN  IF id = NoId THEN DaoResult(db, "", "ValueError")
        ELSE DaoResult([db EXCEPT !.galleries = u.rows],
                       RowCount(u.rowcount), "")

\* UPDATE blobs SET blob = ? WHERE checksum = ?, ValueError when the
\* checksum is None or empty; the payload is not part of the model.
BlobsDAO_update_blob(db, checksum) ==
    IF checksum \in {NoneStr, <<>>} THEN DaoResult(db, "", "ValueError")
    ELSE DaoResult(db, RowCount(IF checksum \in db.blobs THEN 1 ELSE 0), "")

\* UPDATE scenes_files SET `primary` = ? WHERE scene_id = ? AND file_id = ?:
\* no check of the ids, a None id is bound as NULL and selects no row.
ScenesFilesDAO_update(db, scene_id, file_id, primary) ==
    LET key == <<scene_id, file_id>>
    IN  IF HasKey(db.scenes_files, key)
        THEN DaoResult([db EXCEPT !.scenes_files =
                           AddRow(DropKey(@, key),
                                  <<scene_id, file_id, primary>>)], "1", "")
        ELSE DaoResult(db, "0", "")

(***************************************************************************)
(* The synchronization steps of refresh_stash_scene.py.  A step returns    *)
(* the database seen by the connection, the in-memory Scenes object, its   *)
(* return value ("True"/"False"), the exception that escapes it ("" when   *)
(* none) and the database states it committed, in order.                   *)
(***************************************************************************)
StepResult(db, rec, ret, exc, commits) ==
    [db |-> db, rec |-> rec, ret |-> ret, exc |-> exc, commits |-> commits]

PyBool(b) == IF b THEN "True" ELSE "False"

\* try: dao.update(scene_record); dao.commit()  except Exception: failure.
\* ScenesDAO has no commit, so the AttributeError of the second call is
\* caught as well and the UPDATE stays in the open transaction.
TryUpdateCommit(db, scene_record) ==
    LET u == ScenesDAO_update(db, scene_record)
    IN  IF u.exc # "" THEN [db |-> db, ok |-> FALSE, commits |-> <<>>]
        ELSE IF "commit" \notin ScenesDAOAttrs
             THEN [db |-> u.db, ok |-> FALSE, commits |-> <<>>]
             ELSE [db |-> u.db, ok |-> TRUE, commits |-> <<u.db>>]

update_scene_title(db, scene_record, info) ==
    LET r == [scene_record EXCEPT !.title = info.title]
        t == TryUpdateCommit(db, r)
    IN  StepResult(t.db, r, PyBool(t.ok), "", t.commits)

update_scene_date(db, scene_record, info) ==
    LET r == [scene_record EXCEPT !.date = info.premiered]
        t == TryUpdateCommit(db, r)
    IN  StepResult(t.db, r, PyBool(t.ok), "", t.commits)

update_scene_code(db, scene_record, info) ==
    LET r == [scene_record EXCEPT !.code = info.uniqueid]
        t == TryUpdateCommit(db, r)
    IN  StepResult(t.db, r, PyBool(t.ok), "", t.commits)

\* Variant of update_scene_director without the guard on the director.
update_scene_director_no_guard(db, scene_record, info) ==
    LET r == [scene_record EXCEPT !.director = info.director]
        t == TryUpdateCommit(db, r)
    IN  StepResult(t.db, r, PyBool(t.ok), "", t.commits)

\* `if not movie_info.director`: None and the empty string return False
\* before the assignment.
update_scene_director(db, scene_record, info) ==
    LET r == [scene_record EXCEPT !.director = info.director]
        t == TryUpdateCommit(db, r)
    IN  IF info.director \in {NoneStr, <<>>}
        THEN StepResult(db, scene_record, "False", "", <<>>)
        ELSE StepResult(t.db, r, PyBool(t.ok), "", t.commits)

\* StudiosDAO.insert while another process holds the write lock of the
\* database file to insert the studio: the INSERT ends with
\* sqlite3.OperationalError (database is locked), which is caught, None is
\* returned, and the connection then sees the row the other process
\* committed.
StudiosDAO_insert_locked(db, studio_name) ==
    [db |-> [db EXCEPT !.studios = Append(@, studio_name)],
     id |-> NoId, exc |-> ""]

\* get_by_name; when absent insert and studio_dao.commit(), which commits
\* the shared connection, also when the insert returned None.  ins is what
\* StudiosDAO.insert does when it is called.
update_scene_studio_with(db, scene_record, info, ins) ==
    LET found == StudiosDAO_get_by_name(db, info.studio)
        db1 == IF found = NoId THEN ins.db ELSE db
        studio_id == IF found = NoId THEN ins.id ELSE found
        commits1 == IF found = NoId THEN <<db1>> ELSE <<>>
        r == [scene_record EXCEPT !.studio_id = studio_id]
        t == TryUpdateCommit(db1, r)
    IN  IF studio_id = NoId
        THEN StepResult(db1, scene_record, "False", "", commits1)
        ELSE StepResult(t.db, r, PyBool(t.ok), "", commits1 \o t.commits)

update_scene_studio(db, scene_record, info) ==
    update_scene_studio_with(db, scene_record, info,
                             StudiosDAO_insert(db, info.studio))

\* First loop of update_scene_tags: create the tags whose lookup is empty.
RECURSIVE CreateMissingTags(_, _)
CreateMissingTags(db, tags) ==
    IF tags = <<>> THEN db
    ELSE IF TagsDAO_get_by_name(db, Head(tags)) = <<>>
         THEN CreateMissingTags(TagsDAO_insert(db, Head(tags)).db, Tail(tags))
         ELSE CreateMissingTags(db, Tail(tags))

\* Second loop: the first match of every tag that is found.
RECURSIVE RequeryTags(_, _)
RequeryTags(db, tags) ==
    IF tags = <<>> THEN <<>>
    ELSE LET found == TagsDAO_get_by_name(db, Head(tags))
         IN  (IF found = <<>> THEN <<>> ELSE <<Head(found)>>)
             \o RequeryTags(db, Tail(tags))

\* Third loop: insert the pairs that get_by_ids does not find.
RECURSIVE LinkTags(_, _, _)
LinkTags(db, scene_id, tag_ids) ==
    IF tag_ids = <<>> THEN db
    ELSE IF ScenesTagsDAO_get_by_ids(db, scene_id, Head(tag_ids))
         THEN LinkTags(db, scene_id, Tail(tag_ids))
         ELSE LinkTags(ScenesTagsDAO_insert(db, scene_id, Head(tag_ids)).db,
                       scene_id, Tail(tag_ids))

\* Variant of update_scene_tags that creates a tag for every genre without
\* looking it up, and links it.
update_scene_tags_no_lookup(db, scene_record, info) ==
    LET F[i \in 0..Len(info.genres)] ==
            IF i = 0 THEN db
            ELSE LET ins == TagsDAO_insert(F[i-1], info.genres[i])
                 IN  ScenesTagsDAO_insert(ins.db, scene_record.id, ins.id).db
    IN  IF info.genres = <<>>
        THEN StepResult(db, scene_record, "False", "", <<>>)
        ELSE StepResult(F[Len(info.genres)], scene_record, "True", "", <<>>)

\* dbm.tags.get_by_name is not an attribute of TagsDAO: with a non-empty
\* genre list the first lookup raises AttributeError out of the step.
update_scene_tags(db, scene_record, info) ==
    LET db1 == CreateMissingTags(db, info.genres)
        db2 == LinkTags(db1, scene_record.id, RequeryTags(db1, info.genres))
    IN  IF info.genres = <<>>
        THEN StepResult(db, scene_record, "False", "", <<>>)
        ELSE IF "get_by_name" \notin TagsDAOAttrs
             THEN StepResult(db, scene_record, "", "AttributeError", <<>>)
             ELSE StepResult(db2, scene_record, "True", "", <<>>)

\* The search pattern is '%fanart#' followed by the formatted uniqueid.
FanartToken(uniqueid) == <<"f", "#">> \o uniqueid

\* Variant of update_scene_gallery that first creates a gallery of the
\* first folder.
update_scene_gallery_creates(db, scene_record, info) ==
    LET db1 == [db EXCEPT !.galleries = Append(@, 1)]
        folders == FoldersDAO_get_by_path_pattern(db1, FanartToken(info.uniqueid))
    IN  IF folders.exc # ""
        THEN StepResult(db1, scene_record, "", folders.exc, <<>>)
        ELSE StepResult(db1, scene_record, "False", "", <<>>)

update_scene_gallery(db, scene_record, info) ==
    LET folders == FoldersDAO_get_by_path_pattern(db, FanartToken(info.uniqueid))
        galleries == GalleriesDAO_get_by_folder_id(db, Head(folders.ids))
        ins == ScenesGalleriesDAO_insert(db, scene_record.id, Head(galleries))
    IN  IF folders.exc # ""
        THEN StepResult(db, scene_record, "", folders.exc, <<>>)
        ELSE IF folders.ids = <<>> \/ galleries = <<>>
        THEN StepResult(db, scene_record, "False", "", <<>>)
        ELSE IF "get_by_ids" \notin ScenesGalleriesDAOAttrs
        THEN StepResult(db, scene_record, "", "AttributeError", <<>>)
        ELSE IF HasKey(db.scenes_galleries, <<scene_record.id, Head(galleries)>>)
        THEN StepResult(db, scene_record, "True", "", <<>>)
        ELSE IF "update_or_insert" \notin ScenesGalleriesDAOAttrs
        THEN StepResult(db, scene_record, "", "AttributeError", <<>>)
        ELSE StepResult(ins.db, scene_record, PyBool(ins.ret # "0"), "", <<>>)

\* Variant of update_scene_cover without the os.path.isfile check.
update_scene_cover_no_check(db, scene_record, img) ==
    LET r == [scene_record EXCEPT !.cover_blob = img.md5]
        b == BlobsDAO_insert(db, img.md5)
    IN  StepResult(b.db, r, "True", "", <<>>)

\* Variant of update_scene_cover whose UPDATE reaches the scenes table: it
\* stores every column of the record.
update_scene_cover_writes_record(db, scene_record, img) ==
    LET r == [scene_record EXCEPT !.cover_blob = img.md5]
    IN  IF ~img.isfile \/ ~img.readable \/ ~img.copyable
        THEN StepResult(db, scene_record, "False", "", <<>>)
        ELSE StepResult(
                 [db EXCEPT !.scenes[r.id] =
                     [title |-> r.title, date |-> r.date,
                      studio_id |-> r.studio_id, code |-> r.code,
                      director |-> r.director, cover_blob |-> r.cover_blob]],
                 r, "True", "", <<>>)

\* img is what the file system answers for img_path: whether it is a file,
\* whether it can be read and copied, and the MD5 of its content.
update_scene_cover(db, scene_record, img) ==
    LET r == [scene_record EXCEPT !.cover_blob = img.md5]
        u == ScenesDAO_update(db, r)
        b == BlobsDAO_insert(u.db, img.md5)
    IN  IF ~img.isfile \/ ~img.readable \/ ~img.copyable
        THEN StepResult(db, scene_record, "False", "", <<>>)
        ELSE IF u.exc # ""
        THEN StepResult(db, r, "True", "", <<>>)
        ELSE IF "commit" \notin DatabaseAttrs
        THEN StepResult(b.db, r, "True", "", <<>>)
        ELSE StepResult(b.db, r, "True", "", <<b.db>>)

\* The name of info.movie_set, NoneStr when the set is None.
MovieSetName(info) ==
    IF "movie_set" \in DOMAIN info THEN info.movie_set ELSE NoneStr

\* Movie has no movie_set attribute and Database no groups attribute: the
\* first statement of the step raises AttributeError out of it.
update_scene_groups(db, scene_record, info) ==
    LET name == MovieSetName(info)
        found == GroupsDAO_get_by_name(db, name)
        ins == GroupsDAO_insert(db, name)
        db1 == IF found = NoId THEN ins.db ELSE db
        group_id == GroupsDAO_get_by_name(db1, name)
        link == GroupsScenesDAO_insert(db1, scene_record.id, group_id)
    IN  IF "movie_set" \notin MovieAttrs
        THEN StepResult(db, scene_record, "", "AttributeError", <<>>)
        ELSE IF name = NoneStr
        THEN StepResult(db, scene_record, "False", "", <<>>)
        ELSE IF "groups" \notin DatabaseAttrs
        THEN StepResult(db, scene_record, "", "AttributeError", <<>>)
        ELSE IF found = NoId /\ ins.exc # ""
        THEN StepResult(db, scene_record, "", ins.exc, <<>>)
        ELSE IF group_id = NoId
        THEN StepResult(db1, scene_record, "False", "", <<>>)
        ELSE IF GroupsScenesDAO_get_by_ids(db1, scene_record.id, group_id)
        THEN StepResult(db1, scene_record, "True", "", <<>>)
        ELSE StepResult(link.db, scene_record, PyBool(link.ret # "0"), "", <<>>)

\* First loop of update_scene_performers.  PerformersDAO.insert has no
\* try/except: its error ends the loop and the step.
RECURSIVE CreateMissingPerformers(_, _)
CreateMissingPerformers(db, actors) ==
    IF actors = <<>> THEN [db |-> db, exc |-> ""]
    ELSE IF PerformersDAO_get_by_name(db, Head(actors)) = <<>>
         THEN LET ins == PerformersDAO_insert(db, Head(actors))
              IN  IF ins.exc # "" THEN [db |-> db, exc |-> ins.exc]
                  ELSE CreateMissingPerformers(ins.db, Tail(actors))
         ELSE CreateMissingPerformers(db, Tail(actors))

RECURSIVE RequeryPerformers(_, _)
RequeryPerformers(db, actors) ==
    IF actors = <<>> THEN <<>>
    ELSE LET found == PerformersDAO_get_by_name(db, Head(actors))
         IN  (IF found = <<>> THEN <<>> ELSE <<Head(found)>>)
             \o RequeryPerformers(db, Tail(actors))

RECURSIVE LinkPerformers(_, _, _)
LinkPerformers(db, scene_id, performer_ids) ==
    IF performer_ids = <<>> THEN db
    ELSE IF PerformersScenesDAO_get_by_ids(db, scene_id, Head(performer_ids))
         THEN LinkPerformers(db, scene_id, Tail(performer_ids))
         ELSE LinkPerformers(
                  PerformersScenesDAO_insert(db, Head(performer_ids), scene_id).db,
                  scene_id, Tail(performer_ids))

\* The database without the performer associations of the scene.
DropScenePerformers(db, scene_id) ==
    LET kept == {row \in BagToSet(db.performers_scenes) : row[2] # scene_id}
    IN  [db EXCEPT !.performers_scenes =
                       [row \in kept |-> db.performers_scenes[row]]]

\* Variant of update_scene_performers that replaces the associations of the
\* scene by those of the performers it resolves.
update_scene_performers_replace(db, scene_record, info) ==
    LET c == CreateMissingPerformers(db, info.actors)
        db1 == DropScenePerformers(c.db, scene_record.id)
        db2 == LinkPerformers(db1, scene_record.id,
                              RequeryPerformers(db1, info.actors))
    IN  IF info.actors = <<>>
        THEN StepResult(db, scene_record, "False", "", <<>>)
        ELSE IF c.exc # ""
        THEN StepResult(c.db, scene_record, "", c.exc, <<>>)
        ELSE StepResult(db2, scene_record, "True", "", <<>>)

update_scene_performers(db, scene_record, info) ==
    LET c == CreateMissingPerformers(db, info.actors)
        db2 == LinkPerformers(c.db, scene_record.id,
                              RequeryPerformers(c.db, info.actors))
    IN  IF info.actors = <<>>
        THEN StepResult(db, scene_record, "False", "", <<>>)
        ELSE IF c.exc # ""
        THEN StepResult(c.db, scene_record, "", c.exc, <<>>)
        ELSE StepResult(db2, scene_record, "True", "", <<>>)

(***************************************************************************)
(* process_folder.  A folder is what the file system answers for the path: *)
(* whether it is a directory, whether movie.nfo parses and to which Movie, *)
(* the names of its files and what poster.jpg is.                          *)
(***************************************************************************)
StepOrder ==
    <<"title", "date", "studio", "tags", "gallery", "director", "cover",
      "code", "group", "performers">>

Contains(s, sub) ==
    \E i \in 0..(Len(s) - Len(sub)) : SubSeq(s, i + 1, i + Len(sub)) = sub

\* SCENE_FILE_SUBFIX, one suffix here.
FileSuffix == <<".", "m">>

\* The files of the folder with a media suffix whose name contains the code.
RECURSIVE find_files_by_code(_, _)
find_files_by_code(filenames, movie_code) ==
    IF filenames = <<>> THEN <<>>
    ELSE (IF /\ IsSuffix(Lower(FileSuffix), Lower(Head(filenames)))
             /\ Contains(Head(filenames), movie_code)
          THEN <<Head(filenames)>> ELSE <<>>)
         \o find_files_by_code(Tail(filenames), movie_code)

\* The call process_folder makes for a step.
StepCall(name, db, scene_record, folder) ==
    CASE name = "title" -> update_scene_title(db, scene_record, folder.info)
      [] name = "date" -> update_scene_date(db, scene_record, folder.info)
      [] name = "studio" -> update_scene_studio(db, scene_record, folder.info)
      [] name = "tags" -> update_scene_tags(db, scene_record, folder.info)
      [] name = "gallery" -> update_scene_gallery(db, scene_record, folder.info)
      [] name = "director" -> update_scene_director(db, scene_record, folder.info)
      [] name = "cover" -> update_scene_cover(db, scene_record, folder.poster)
      [] name = "code" -> update_scene_code(db, scene_record, folder.info)
      [] name = "group" -> update_scene_groups(db, scene_record, folder.info)
      [] name = "performers" ->
             update_scene_performers(db, scene_record, folder.info)

\* What process_folder holds after a step: p before the step, r its result.
AfterStep(p, name, r) ==
    [db |-> r.db, rec |-> r.rec, started |-> Append(p.started, name),
     results |-> Append(p.results, r.ret),
     failed |-> IF name # "cover" /\ r.ret = "False"
                THEN p.failed + 1 ELSE p.failed,
     commits |-> p.commits \o r.commits, exc |-> r.exc]

\* Steps 6 to 16 of process_folder from the i-th on: each step is called on
\* what the one before left, an exception ends the block, the cover step is
\* called only when poster.jpg exists and its result is not counted.
RECURSIVE RunStepsFrom(_, _, _)
RunStepsFrom(i, p, folder) ==
    IF i > Len(StepOrder) \/ p.exc # "" THEN p
    ELSE IF StepOrder[i] = "cover" /\ ~folder.poster.exists
    THEN RunStepsFrom(i + 1, p, folder)
    ELSE RunStepsFrom(i + 1,
             AfterStep(p, StepOrder[i],
                       StepCall(StepOrder[i], p.db, p.rec, folder)),
             folder)

RunSteps(db, scene_record, folder) ==
    RunStepsFrom(1, [db |-> db, rec |-> scene_record, started |-> <<>>,
                     results |-> <<>>, failed |-> 0, commits |-> <<>>, exc |-> ""], folder)

\* What a whole call leaves: the committed database, how the call ended,
\* the exception that left it, the steps it started, what they returned and
\* failed_item_count.
RunResult(disk, outcome, exc, started, results, failed) ==
    [disk |-> disk, outcome |-> outcome, exc |-> exc, started |-> started,
     results |-> results, failed |-> failed]

\* The end of the with block after the steps: an exception rolls back to
\* the last commit, otherwise Database.__exit__ commits.
EndOfBlock(disk, steps) ==
    IF steps.exc = ""
    THEN RunResult(steps.db, "done", "", steps.started, steps.results,
                   steps.failed)
    ELSE RunResult(IF steps.commits = <<>> THEN disk
                   ELSE steps.commits[Len(steps.commits)],
                   "raised", steps.exc, steps.started, steps.results,
                   steps.failed)

\* Lines 507 to 593: the scene of the id, then the steps.
WithScene(disk, folder, scene) ==
    IF scene.exc # "" THEN RunResult(disk, "raised", scene.exc, <<>>, <<>>, 0)
    ELSE IF scene.id = NoId THEN RunResult(disk, "no_scene", "", <<>>, <<>>, 0)
    ELSE EndOfBlock(disk, RunSteps(disk, RowToScenes(disk, scene.id), folder))

\* Lines 499 to 505: the scenes_files row of the file.
WithSceneFile(disk, folder, scene_id) ==
    IF scene_id = NoId THEN RunResult(disk, "no_scene_file", "", <<>>, <<>>, 0)
    ELSE WithScene(disk, folder, ScenesDAO_get_by_id(disk, scene_id))

\* Lines 492 to 496: the files row of the basename.  A return inside the
\* with block commits, an exception rolls back.
WithFile(disk, folder, file) ==
    IF file.exc # "" THEN RunResult(disk, "raised", file.exc, <<>>, <<>>, 0)
    ELSE IF file.id = NoId THEN RunResult(disk, "no_file", "", <<>>, <<>>, 0)
    ELSE WithSceneFile(disk, folder,
                       ScenesFilesDAO_get_by_file_id(disk, file.id))

\* Lines 476 to 490: the first media file found, then the database.
WithMedia(disk, folder, media) ==
    IF media = <<>> THEN RunResult(disk, "no_media", "", <<>>, <<>>, 0)
    ELSE WithFile(disk, folder, FilesDAO_get_by_basename(disk, Head(media)))

process_folder(disk, folder) ==
    IF ~folder.isdir THEN RunResult(disk, "not_dir", "", <<>>, <<>>, 0)
    ELSE IF ~folder.nfo_ok THEN RunResult(disk, "nfo_error", "", <<>>, <<>>, 0)
    ELSE WithMedia(disk, folder,
                   find_files_by_code(folder.files, folder.info.uniqueid))

(***************************************************************************)
(* State.  disk is the committed database file, work what the open         *)
(* connection of a Database context sees, rec the Scenes object the code   *)
(* in the with block holds.  last describes the latest call, ctx the       *)
(* latest context, run the call of process_folder if it is the latest.     *)
(* proc holds the processes that work on the database file at the same     *)
(* time, each with a connection of its own.                                *)
(***************************************************************************)
VARIABLES disk, work, conn, rec, last, ctx, run, proc

vars == <<disk, work, conn, rec, last, ctx, run, proc>>

SceneRow0 ==
    [title |-> OldTitle, date |-> NoneStr, studio_id |-> NoId,
     code |-> NoneStr, director |-> NoneStr, cover_blob |-> NoneStr]

FanartPath == <<"/", "f", "#", "X", "1">>
FanartPath2 == <<"/", "2", "f", "#", "X", "1">>   \* a second fanart folder
OtherPath == <<"/", "v">>                         \* a folder of media files

\* Databases StashApp may have left: one scanned scene, with or without its
\* media file row, a studio, a linked tag, a linked performer.
InitialCatalogues ==
    { [studios |-> IF st THEN <<Acme>> ELSE <<>>,
       tags |-> IF tg THEN <<Drama>> ELSE <<>>,
       performers |-> IF pf THEN <<Ann>> ELSE <<>>,
       groups |-> <<>>,
       scenes |-> [id \in SceneIds |-> SceneRow0],
       files |-> <<Media1>>,
       folders |-> <<FanartPath>>,
       galleries |-> <<1>>,
       blobs |-> {},
       scenes_files |-> IF sf THEN SetToBag({<<1, 1, TRUE>>}) ELSE EmptyBag,
       scenes_tags |-> IF tg THEN SetToBag({<<1, 1>>}) ELSE EmptyBag,
       performers_scenes |-> IF pf THEN SetToBag({<<1, 1>>}) ELSE EmptyBag,
       scenes_galleries |-> EmptyBag,
       groups_scenes |-> EmptyBag] :
      st \in BOOLEAN, tg \in BOOLEAN, pf \in BOOLEAN, sf \in BOOLEAN }

Movie(studio, genres, actors, director) ==
    [title |-> NewTitle, premiered |-> NoneStr, uniqueid |-> Code1,
     studio |-> studio, genres |-> genres, actors |-> actors,
     director |-> director]

\* Movie objects parse_nfo_to_movie may return.
Descriptors ==
    {Movie(Acme, <<Drama, Comedy>>, <<Ann>>, Ann),
     Movie(AcmeVar, <<Drama, Comedy>>, <<Ann>>, Ann),
     Movie(Acme, <<>>, <<>>, NoneStr),
     Movie(NoneStr, <<>>, <<>>, NoneStr)}

\* Movie objects whose scalar fields are set, None (the element is absent
\* or empty) or the empty string.
ScalarMovie(title, premiered, uniqueid, director) ==
    [title |-> title, premiered |-> premiered, uniqueid |-> uniqueid,
     studio |-> Acme, genres |-> <<>>, actors |-> <<>>, director |-> director]

ScalarDescriptors ==
    {ScalarMovie(NewTitle, Date1, Code1, Ann),
     ScalarMovie(NoneStr, NoneStr, NoneStr, NoneStr),
     ScalarMovie(<<>>, <<>>, <<>>, <<>>)}

\* What poster.jpg may be: absent, a directory, a file that cannot be read
\* or copied, a file.
Poster(e, f, r, c) ==
    [exists |-> e, isfile |-> f, readable |-> r, copyable |-> c,
     md5 |-> <<"5">>]

Posters ==
    {Poster(FALSE, FALSE, FALSE, FALSE), Poster(TRUE, FALSE, FALSE, FALSE),
     Poster(TRUE, TRUE, FALSE, FALSE), Poster(TRUE, TRUE, TRUE, FALSE),
     Poster(TRUE, TRUE, TRUE, TRUE)}

Folder(isdir, nfo_ok, info, files, poster) ==
    [isdir |-> isdir, nfo_ok |-> nfo_ok, info |-> info, files |-> files,
     poster |-> poster]

NoPoster == Poster(FALSE, FALSE, FALSE, FALSE)

\* A path that is no directory, a folder whose movie.nfo does not parse, a
\* folder without media file, one whose media file was never scanned, and
\* folders of the catalogued media file, with or without poster.
Folders ==
    {Folder(FALSE, FALSE, Movie(NoneStr, <<>>, <<>>, NoneStr), <<>>, NoPoster),
     Folder(TRUE, FALSE, Movie(NoneStr, <<>>, <<>>, NoneStr), <<Media1>>,
            NoPoster),
     Folder(TRUE, TRUE, Movie(Acme, <<>>, <<>>, NoneStr), <<>>, NoPoster),
     Folder(TRUE, TRUE, Movie(Acme, <<>>, <<>>, NoneStr), <<Media2>>,
            NoPoster)}
    \cup {Folder(TRUE, TRUE, info, <<Media1>>, poster) :
              info \in Descriptors,
              poster \in {NoPoster, Poster(TRUE, TRUE, TRUE, TRUE)}}

\* Scenes(): every field None.
NoScenes ==
    [id |-> NoId, title |-> NoneStr, date |-> NoneStr, studio_id |-> NoId,
     code |-> NoneStr, director |-> NoneStr, cover_blob |-> NoneStr]

NoRun ==
    [outcome |-> "none", exc |-> "", started |-> <<>>, results |-> <<>>,
     failed |-> 0, locatable |-> FALSE, scenario |-> FALSE]

\* The processes that run at the same time on one database file.
Procs == {1, 2}

\* A process that has not opened its Database context.
Idle ==
    [pc |-> "idle", job |-> "none", name |-> NoneStr, writing |-> FALSE,
     tx |-> <<>>, found |-> FALSE, locked |-> FALSE, id |-> NoId, ret |-> "",
     exc |-> "", end |-> "none"]

Call(op, arg, ret, exc, dup) ==
    [op |-> op, arg |-> arg, ret |-> ret, exc |-> exc, dup |-> dup]

Init ==
    /\ disk \in InitialCatalogues
    /\ work = disk
    /\ conn = "closed"
    /\ rec = NoScenes
    /\ last = Call("init", <<>>, "", "", FALSE)
    /\ ctx = [start |-> disk, commits |-> 0, end |-> "none"]
    /\ run = NoRun
    /\ proc = [p \in Procs |-> Idle]

\* with Database(path) as dbm: a connection on the committed database; the
\* block holds the Scenes object of a scene row.
Enter ==
    /\ conn = "closed"
    /\ \E id \in SceneIds :
         /\ conn' = "open"
         /\ work' = disk
         /\ rec' = RowToScenes(disk, id)
         /\ ctx' = [start |-> disk, commits |-> 0, end |-> "none"]
         /\ last' = Call("enter", <<>>, "", "", FALSE)
         /\ run' = NoRun
         /\ UNCHANGED <<disk, proc>>

\* Database.__exit__ with exc_type None: commit, close.
ExitCommit ==
    /\ conn = "open"
    /\ disk' = work
    /\ conn' = "closed"
    /\ ctx' = [ctx EXCEPT !.commits = @ + 1, !.end = "commit"]
    /\ last' = Call("exit", <<>>, "", "", FALSE)
    /\ rec' = NoScenes
    /\ UNCHANGED <<work, run, proc>>

\* Database.__exit__ with an exception: rollback, close.
ExitRollback ==
    /\ conn = "fault"
    /\ work' = disk
    /\ conn' = "closed"
    /\ ctx' = [ctx EXCEPT !.end = "rollback"]
    /\ last' = Call("exit", <<>>, "", last.exc, FALSE)
    /\ rec' = NoScenes
    /\ UNCHANGED <<disk, run, proc>>

\* The code of the with block raises by itself.
BlockRaises ==
    /\ conn = "open"
    /\ conn' = "fault"
    /\ last' = Call("raise", <<>>, "", "Exception", FALSE)
    /\ UNCHANGED <<disk, work, rec, ctx, run, proc>>

\* A step called in the with block: its writes reach the connection, its
\* commits the file, an exception that escapes it ends the block.
Step(name, arg, res) ==
    /\ conn = "open"
    /\ Len(res.db.studios) <= MaxRows
    /\ Len(res.db.performers) <= MaxRows
    /\ Len(res.db.tags) <= MaxRows
    /\ ctx.commits + Len(res.commits) <= MaxCommits
    /\ work' = res.db
    /\ rec' = res.rec
    /\ disk' = IF res.commits = <<>> THEN disk
               ELSE res.commits[Len(res.commits)]
    /\ conn' = IF res.exc # "" THEN "fault" ELSE "open"
    /\ ctx' = [ctx EXCEPT !.commits = @ + Len(res.commits)]
    /\ last' = Call(name, arg, res.ret, res.exc, FALSE)
    /\ UNCHANGED <<run, proc>>

StepTitle ==
    \E info \in Descriptors :
        Step("title", <<info.title>>, update_scene_title(work, rec, info))

\* The title step with a descriptor whose title may be None or empty.
StepTitleBlank ==
    \E info \in ScalarDescriptors :
        Step("title", <<info.title>>, update_scene_title(work, rec, info))

StepDate ==
    \E info \in Descriptors \cup ScalarDescriptors :
        Step("date", <<info.premiered>>, update_scene_date(work, rec, info))

StepStudio ==
    \E info \in Descriptors :
        Step("studio", <<info.studio>>, update_scene_studio(work, rec, info))

\* The studio step while another process creates the studio: the lookup
\* finds nothing, the connection having nothing to commit, and the insert
\* meets the lock.
StepStudioLocked ==
    \E info \in Descriptors :
        /\ info.studio # NoneStr
        /\ work = disk
        /\ StudiosDAO_get_by_name(work, info.studio) = NoId
        /\ Step("studio_locked", <<info.studio>>,
                update_scene_studio_with(
                    work, rec, info,
                    StudiosDAO_insert_locked(work, info.studio)))

StepTags ==
    \E info \in Descriptors :
        Step("tags", info.genres, update_scene_tags(work, rec, info))

StepGallery ==
    \E info \in Descriptors :
        Step("gallery", <<info.uniqueid>>,
             update_scene_gallery(work, rec, info))

StepDirector ==
    \E info \in Descriptors \cup ScalarDescriptors :
        Step("director", <<info.director>>,
             update_scene_director(work, rec, info))

StepCover ==
    \E img \in Posters :
        Step("cover", <<img>>, update_scene_cover(work, rec, img))

StepCode ==
    \E info \in Descriptors \cup ScalarDescriptors :
        Step("code", <<info.uniqueid>>, update_scene_code(work, rec, info))

StepGroups ==
    \E info \in Descriptors :
        Step("group", <<>>, update_scene_groups(work, rec, info))

StepPerformers ==
    \E info \in Descriptors :
        Step("performers", info.actors,
             update_scene_performers(work, rec, info))

\* A DAO method called in the with block; dup tells whether the pair was
\* already in the table.
Dao(op, res, dup) ==
    /\ conn = "open"
    /\ work' = res.db
    /\ conn' = IF res.exc # "" THEN "fault" ELSE "open"
    /\ last' = Call(op, <<>>, res.ret, res.exc, dup)
    /\ UNCHANGED <<disk, rec, ctx, run, proc>>

\* ScenesTags() has scene_id None until it is given one and the columns of
\* scenes_tags are nullable.
DaoScenesTagsInsert ==
    \E s \in SceneIds \cup {NoId}, t \in TagIds :
        /\ CopiesIn(<<s, t>>, work.scenes_tags) < MaxRows
        /\ Dao("scenes_tags.insert", ScenesTagsDAO_insert(work, s, t),
               RowsWithKey(work.scenes_tags, <<s, t>>) # {})

DaoScenesTagsUpdateOrInsert ==
    \E s \in SceneIds \cup {NoId}, t \in TagIds :
        /\ CopiesIn(<<s, t>>, work.scenes_tags) < MaxRows
        /\ Dao("scenes_tags.update_or_insert",
               ScenesTagsDAO_update_or_insert(work, s, t),
               RowsWithKey(work.scenes_tags, <<s, t>>) # {})

DaoPerformersScenesInsert ==
    \E q \in PerformerIds, s \in SceneIds :
        Dao("performers_scenes.insert", PerformersScenesDAO_insert(work, q, s),
            HasKey(work.performers_scenes, <<q, s>>))

DaoScenesGalleriesInsert ==
    \E s \in SceneIds, g \in GalleryIds :
        Dao("scenes_galleries.insert", ScenesGalleriesDAO_insert(work, s, g),
            HasKey(work.scenes_galleries, <<s, g>>))

DaoGroupsScenesAdd ==
    \E g \in GroupIds, s \in SceneIds, i \in SceneIndexes :
        Dao("groups_scenes.add_scene_to_group",
            GroupsScenesDAO_add_scene_to_group(work, g, s, i),
            HasKey(work.groups_scenes, <<g, s>>))

DaoGroupsScenesInsert ==
    \E s \in SceneIds, g \in GroupIds :
        Dao("groups_scenes.insert", GroupsScenesDAO_insert(work, s, g),
            HasKey(work.groups_scenes, <<g, s>>))

DaoScenesFilesInsert ==
    \E s \in SceneIds, f \in FileIds :
        Dao("scenes_files.insert", ScenesFilesDAO_insert(work, s, f, TRUE),
            HasKey(work.scenes_files, <<s, f>>))

\* update of a DAO called in the with block with an object of the id.
Update(op, id, res) ==
    /\ conn = "open"
    /\ work' = res.db
    /\ conn' = IF res.exc # "" THEN "fault" ELSE "open"
    /\ last' = Call(op, <<id>>, res.ret, res.exc, FALSE)
    /\ UNCHANGED <<disk, rec, ctx, run, proc>>

UpdateScenes ==
    \E id \in SceneIds \cup {NoId}, title \in {NewTitle, NoneStr} :
        LET u == ScenesDAO_update(work, [rec EXCEPT !.id = id,
                                                    !.title = title])
        IN  Update("scenes.update", id, DaoResult(u.db, "", u.exc))

UpdateStudios ==
    \E id \in {NoId, 1}, name \in {AcmeVar, NoneStr} :
        Update("studios.update", id, StudiosDAO_update(work, id, name))

UpdateTags ==
    \E id \in TagIds \cup {NoId}, name \in {Comedy, NoneStr} :
        Update("tags.update", id, TagsDAO_update(work, id, name))

UpdatePerformers ==
    \E id \in PerformerIds \cup {NoId}, name \in {Ann, NoneStr} :
        Update("performers.update", id, PerformersDAO_update(work, id, name))

UpdateGroups ==
    \E id \in GroupIds \cup {NoId}, name \in {Acme, NoneStr} :
        Update("groups.update", id, GroupsDAO_update(work, id, name))

UpdateFiles ==
    \E id \in FileIds \cup {NoId} :
        Update("files.update", id, FilesDAO_update(work, id, Media1))

UpdateFolders ==
    \E id \in {NoId, 1} :
        Update("folders.update", id, FoldersDAO_update(work, id, FanartPath))

UpdateGalleries ==
    \E id \in GalleryIds \cup {NoId} :
        Update("galleries.update", id, GalleriesDAO_update(work, id, 1))

UpdateBlobs ==
    \E checksum \in {NoneStr, <<>>, OldBlob} :
        Update("blobs.update_blob",
               IF checksum \in {NoneStr, <<>>} THEN NoId ELSE 1,
               BlobsDAO_update_blob(work, checksum))

\* ScenesFiles() has scene_id None until it is given one.
UpdateScenesFiles ==
    \E s \in SceneIds \cup {NoId}, f \in FileIds, primary \in BOOLEAN :
        Update("scenes_files.update", s,
               ScenesFilesDAO_update(work, s, f, primary))

\* Whether the files, scenes_files and scenes rows that lead from the media
\* file of the folder to a scene are in the database.
Locatable(db, folder) ==
    LET media == find_files_by_code(folder.files, folder.info.uniqueid)
    IN  /\ folder.isdir /\ folder.nfo_ok /\ media # <<>>
        /\ \E f \in 1..Len(db.files) :
               /\ db.files[f] = Head(media)
               /\ \E row \in BagToSet(db.scenes_files) :
                      row[2] = f /\ row[1] \in DOMAIN db.scenes

\* A scene without studio and tags, a descriptor with a studio and two
\* genres.
Scenario(db, folder) ==
    /\ Locatable(db, folder)
    /\ db.scenes[1].studio_id = NoId
    /\ db.studios = <<>> /\ db.tags = <<>> /\ db.scenes_tags = EmptyBag
    /\ folder.info.studio = Acme
    /\ folder.info.genres = <<Drama, Comedy>>

\* process_folder(folder_path), with its own Database context.
ProcessFolder ==
    /\ conn = "closed"
    /\ \E folder \in Folders :
         LET r == process_folder(disk, folder)
         IN  /\ disk' = r.disk
             /\ work' = r.disk
             /\ run' = [outcome |-> r.outcome, exc |-> r.exc,
                        started |-> r.started, results |-> r.results,
                        failed |-> r.failed,
                        locatable |-> Locatable(disk, folder),
                        scenario |-> Scenario(disk, folder)]
             /\ last' = Call("process_folder", <<>>, "", r.exc, FALSE)
             /\ UNCHANGED <<conn, rec, ctx, proc>>

(***************************************************************************)
(* Two processes on one database file.  Each has its own sqlite3           *)
(* connection: it reads the committed database and its own uncommitted     *)
(* writes, the first INSERT of a transaction takes the write lock of the   *)
(* file, an INSERT of another connection that meets the lock ends with     *)
(* sqlite3.OperationalError (database is locked), commit and rollback      *)
(* release the lock.  A process runs one job in its Database context: the  *)
(* statements of update_scene_studio, those of update_scene_tags, or the   *)
(* get_by_ids and insert of the loop that links a scene to a tag or to a   *)
(* performer.                                                              *)
(***************************************************************************)
ConcJobs == {"studio", "tags", "scenes_tags", "performers_scenes"}

\* The database the connection of a process sees.
View(db, me) == IF me.writing THEN me.tx ELSE db

\* The lookup a job starts with: studio_dao.get_by_name, dbm.tags.get_by_name
\* (not an attribute of TagsDAO) or get_by_ids of the association DAO.
JobLookup(job, db, name) ==
    CASE job = "studio" ->
             [found |-> StudiosDAO_get_by_name(db, name) # NoId,
              id |-> StudiosDAO_get_by_name(db, name), exc |-> ""]
      [] job = "tags" ->
             IF "get_by_name" \notin TagsDAOAttrs
             THEN [found |-> FALSE, id |-> NoId, exc |-> "AttributeError"]
             ELSE [found |-> TagsDAO_get_by_name(db, name) # <<>>,
                   id |-> FirstOrNoId(TagsDAO_get_by_name(db, name)),
                   exc |-> ""]
      [] job = "scenes_tags" ->
             [found |-> ScenesTagsDAO_get_by_ids(db, 1, 1), id |-> NoId,
              exc |-> ""]
      [] job = "performers_scenes" ->
             [found |-> PerformersScenesDAO_get_by_ids(db, 1, 1), id |-> NoId,
              exc |-> ""]

\* The insert of a job on a database the connection can write.
JobInsert(job, db, name) ==
    CASE job = "studio" ->
             [db |-> StudiosDAO_insert(db, name).db,
              id |-> StudiosDAO_insert(db, name).id, ret |-> "", exc |-> ""]
      [] job = "tags" ->
             [db |-> TagsDAO_insert(db, name).db,
              id |-> TagsDAO_insert(db, name).id, ret |-> "", exc |-> ""]
      [] job = "scenes_tags" ->
             [db |-> ScenesTagsDAO_insert(db, 1, 1).db, id |-> NoId,
              ret |-> ScenesTagsDAO_insert(db, 1, 1).ret,
              exc |-> ScenesTagsDAO_insert(db, 1, 1).exc]
      [] job = "performers_scenes" ->
             [db |-> PerformersScenesDAO_insert(db, 1, 1).db, id |-> NoId,
              ret |-> PerformersScenesDAO_insert(db, 1, 1).ret,
              exc |-> PerformersScenesDAO_insert(db, 1, 1).exc]

\* The insert of a job that meets the write lock of another connection:
\* each of the four insert methods catches sqlite3.Error and returns None,
\* False or 0.
JobInsertLocked(job, db) ==
    [db |-> db, id |-> NoId,
     ret |-> CASE job = "scenes_tags" -> "False"
               [] job = "performers_scenes" -> "0"
               [] OTHER -> "",
     exc |-> ""]

\* The process after its lookup.  A studio that is found is assigned, a
\* pair that is found is counted as already there.
ProcLookup(me, db) ==
    LET r == JobLookup(me.job, View(db, me), me.name)
    IN  [me EXCEPT !.found = r.found, !.id = r.id, !.exc = r.exc,
                   !.pc = IF r.exc # "" THEN "fault"
                          ELSE IF ~r.found THEN "insert"
                          ELSE IF me.job = "studio" THEN "update"
                          ELSE "exit"]

\* The process after its insert, locked telling whether another connection
\* holds the write lock.  update_scene_studio commits next.
ProcInsert(me, db, locked) ==
    LET r == IF locked THEN JobInsertLocked(me.job, View(db, me))
             ELSE JobInsert(me.job, View(db, me), me.name)
    IN  [me EXCEPT !.id = r.id, !.ret = r.ret, !.exc = r.exc,
                   !.locked = locked,
                   !.writing = IF locked THEN me.writing ELSE TRUE,
                   !.tx = IF locked THEN me.tx ELSE r.db,
                   !.pc = IF r.exc # "" THEN "fault"
                          ELSE IF me.job = "studio" THEN "commit"
                          ELSE "exit"]

\* studio_dao.commit() and the test of the id the insert returned.
ProcCommit(me) ==
    [me EXCEPT !.writing = FALSE, !.tx = <<>>,
               !.ret = IF me.id = NoId THEN "False" ELSE "",
               !.pc = IF me.id = NoId THEN "exit" ELSE "update"]

\* scene_record.studio_id = studio_id, scene_dao.update, scene_dao.commit.
ProcUpdate(me, db) ==
    LET r == [RowToScenes(View(db, me), 1) EXCEPT !.studio_id = me.id]
        t == TryUpdateCommit(View(db, me), r)
    IN  [me EXCEPT !.ret = PyBool(t.ok), !.pc = "exit",
                   !.writing = IF t.commits # <<>> THEN FALSE
                               ELSE me.writing \/ t.db # View(db, me),
                   !.tx = IF t.commits # <<>> THEN <<>>
                          ELSE IF me.writing \/ t.db # View(db, me) THEN t.db
                          ELSE <<>>]

\* The committed database after these statements.
ProcUpdateDisk(me, db) ==
    LET r == [RowToScenes(View(db, me), 1) EXCEPT !.studio_id = me.id]
        t == TryUpdateCommit(View(db, me), r)
    IN  IF t.commits # <<>> THEN t.commits[Len(t.commits)] ELSE db

\* Database.__exit__: commit without exception, rollback with one.
ProcExit(me) ==
    [me EXCEPT !.pc = "done", !.writing = FALSE, !.tx = <<>>,
               !.end = IF me.pc = "fault" THEN "rollback" ELSE "commit"]

\* A statement of process p: me is the process after it, db the committed
\* database after it.
Conc(op, p, me, db) ==
    /\ proc' = [proc EXCEPT ![p] = me]
    /\ disk' = db
    /\ work' = db
    /\ last' = Call(op, <<p>>, me.ret, me.exc, FALSE)
    /\ UNCHANGED <<conn, rec, ctx, run>>

ConcEnter ==
    \E p \in Procs, job \in ConcJobs, name \in {Acme, AcmeVar} :
        /\ proc[p].pc = "idle"
        /\ job # "studio" => name = Acme
        /\ Conc("conc.enter", p,
                [Idle EXCEPT !.pc = "lookup", !.job = job, !.name = name],
                disk)

ConcLookup ==
    \E p \in Procs :
        /\ proc[p].pc = "lookup"
        /\ Conc("conc.lookup", p, ProcLookup(proc[p], disk), disk)

ConcInsert ==
    \E p \in Procs :
        /\ proc[p].pc = "insert"
        /\ Conc("conc.insert", p,
                ProcInsert(proc[p], disk,
                           \E q \in Procs \ {p} : proc[q].writing),
                disk)

ConcCommit ==
    \E p \in Procs :
        /\ proc[p].pc = "commit"
        /\ Conc("conc.commit", p, ProcCommit(proc[p]), View(disk, proc[p]))

ConcUpdate ==
    \E p \in Procs :
        /\ proc[p].pc = "update"
        /\ Conc("conc.update", p, ProcUpdate(proc[p], disk),
                ProcUpdateDisk(proc[p], disk))

\* The rest of the with block raises.
ConcRaises ==
    \E p \in Procs :
        /\ proc[p].pc = "exit"
        /\ Conc("conc.raise", p,
                [proc[p] EXCEPT !.pc = "fault", !.exc = "Exception"], disk)

ConcExit ==
    \E p \in Procs :
        /\ proc[p].pc \in {"exit", "fault"}
        /\ Conc("conc.exit", p, ProcExit(proc[p]),
                IF proc[p].pc = "exit" THEN View(disk, proc[p]) ELSE disk)

(***************************************************************************)
(* The create, read, update and delete methods of the entity DAOs, one DAO *)
(* at a time on an empty table.  An object is the name column of its class *)
(* (name, basename, path, title, checksum) and one more column (mod_time   *)
(* of Files, blob of Blobs); a table is its rows by key and the last       *)
(* AUTOINCREMENT id.  The key of a blobs row is its checksum.              *)
(***************************************************************************)
\* The entity DAOs on a connection, the ScenesDAO of Database (dbm.scenes)
\* among them, and ScenesDAO entered by itself,
\* `with ScenesDAO(db_path) as dao`.
CrudKinds ==
    {"studios", "tags", "performers", "groups", "files", "folders",
     "galleries", "blobs", "dbm.scenes", "scenes"}

\* datetime.now().isoformat()
Now == <<"n">>

CrudObjects ==
    {[name |-> n, mod_time |-> t] : n \in {Acme, Drama}, t \in {Date0, Date1}}

CrudKeys(kind) == IF kind = "blobs" THEN {Acme, Drama} ELSE 1..MaxIds

NoTable == [rows |-> <<>>, seq |-> 0]

\* _execute raises RuntimeError without cursor: ScenesDAO has one only
\* after its own __enter__.
DaoCursorOpen(kind) == kind # "dbm.scenes" \/ ScenesDAO_cursor_open

\* The row INSERT stores for the object: FilesDAO.insert binds now, not
\* file_obj.mod_time, to mod_time.
StoredRow(kind, obj) ==
    IF kind = "files" THEN [obj EXCEPT !.mod_time = Now] ELSE obj

\* create / insert: the table after it, the key of the new row, whether a
\* row was stored.  BlobsDAO.insert returns False for a checksum the table
\* holds.
DAO_insert(kind, table, obj) ==
    IF ~DaoCursorOpen(kind)
    THEN [table |-> table, key |-> NoId, ok |-> FALSE, exc |-> "RuntimeError"]
    ELSE IF kind = "blobs"
    THEN IF obj.name \in DOMAIN table.rows
         THEN [table |-> table, key |-> obj.name, ok |-> FALSE, exc |-> ""]
         ELSE [table |-> [table EXCEPT !.rows = (obj.name :> obj) @@ @],
               key |-> obj.name, ok |-> TRUE, exc |-> ""]
    ELSE [table |-> [rows |-> ((table.seq + 1) :> StoredRow(kind, obj))
                                  @@ table.rows,
                     seq |-> table.seq + 1],
          key |-> table.seq + 1, ok |-> TRUE, exc |-> ""]

\* get_by_id / get_by_checksum: fetchone() of the row of the key.
DAO_get_by_id(kind, table, key) ==
    IF ~DaoCursorOpen(kind)
    THEN [found |-> FALSE, obj |-> <<>>, exc |-> "RuntimeError"]
    ELSE IF key \in DOMAIN table.rows
    THEN [found |-> TRUE, obj |-> table.rows[key], exc |-> ""]
    ELSE [found |-> FALSE, obj |-> <<>>, exc |-> ""]

\* get_all: the keys of the rows it returns.
DAO_get_all(kind, table) ==
    IF ~DaoCursorOpen(kind) THEN {} ELSE DOMAIN table.rows

\* update / update_blob: UPDATE ... SET every column WHERE id = ?.
DAO_update(kind, table, key, obj) ==
    IF ~DaoCursorOpen(kind)
    THEN [table |-> table, rowcount |-> 0, exc |-> "RuntimeError"]
    ELSE IF key \in DOMAIN table.rows
    THEN [table |-> [table EXCEPT !.rows[key] = obj], rowcount |-> 1,
          exc |-> ""]
    ELSE [table |-> table, rowcount |-> 0, exc |-> ""]

\* delete / delete_by_checksum: DELETE FROM ... WHERE id = ?.
DAO_delete(kind, table, key) ==
    IF ~DaoCursorOpen(kind)
    THEN [table |-> table, rowcount |-> 0, exc |-> "RuntimeError"]
    ELSE IF key \in DOMAIN table.rows
    THEN [table |-> [table EXCEPT
                        !.rows = [k \in DOMAIN table.rows \ {key} |->
                                      table.rows[k]]],
          rowcount |-> 1, exc |-> ""]
    ELSE [table |-> table, rowcount |-> 0, exc |-> ""]

\* A method of the DAO under test: the table after it and what it returned.
Crud(op, key, obj, table, ret, exc) ==
    /\ work' = [work EXCEPT !.table = table]
    /\ last' = Call(op, <<key, obj>>, ret, exc, FALSE)
    /\ UNCHANGED <<disk, conn, rec, ctx, run, proc>>

CrudInsert ==
    \E obj \in CrudObjects :
        LET r == DAO_insert(work.kind, work.table, obj)
        IN  /\ work.table.seq < MaxIds
            /\ Crud("crud.insert", r.key, obj, r.table, PyBool(r.ok), r.exc)

CrudGet ==
    \E key \in CrudKeys(work.kind) :
        LET r == DAO_get_by_id(work.kind, work.table, key)
        IN  Crud("crud.get_by_id", key, r.obj, work.table, PyBool(r.found),
                 r.exc)

CrudUpdate ==
    \E key \in CrudKeys(work.kind), obj \in CrudObjects :
        LET r == DAO_update(work.kind, work.table, key, obj)
        IN  /\ work.kind = "blobs" => obj.name = key
            /\ Crud("crud.update", key, obj, r.table, RowCount(r.rowcount),
                    r.exc)

CrudDelete ==
    \E key \in CrudKeys(work.kind) :
        LET r == DAO_delete(work.kind, work.table, key)
        IN  Crud("crud.delete", key, <<>>, r.table, RowCount(r.rowcount),
                 r.exc)

InitCrud ==
    /\ work \in {[kind |-> k, table |-> NoTable] : k \in CrudKinds}
    /\ disk = work
    /\ conn = "open"
    /\ rec = NoScenes
    /\ last = Call("init", <<>>, "", "", FALSE)
    /\ ctx = [start |-> disk, commits |-> 0, end |-> "none"]
    /\ run = NoRun
    /\ proc = [p \in Procs |-> Idle]

(***************************************************************************)
(* find_nfo_folders_by_time_bfs on a directory tree.  The tree has the     *)
(* start directory, two subfolders of it and a subfolder of the first of   *)
(* them.  A folder has a modification time of its own, the modification    *)
(* times of the .nfo files in it, and os.listdir of it succeeds or raises  *)
(* PermissionError.  disk holds the file system, work the local variables  *)
(* of the call.                                                            *)
(***************************************************************************)
Times == {0, 1}

Dirs == 1..4

StartDir == 1

ParentOf == <<0, 1, 1, 2>>

SubDirs(dir) == {d \in Dirs : ParentOf[d] = dir}

\* os.listdir names the entries in arbitrary order.
ListingOrders(S) ==
    {o \in [1..Cardinality(S) -> S] : \A i, j \in DOMAIN o : o[i] = o[j] => i = j}

FileSystems ==
    {[isdir |-> d, unlistable |-> u, mtime |-> m, nfo |-> n] :
        d \in BOOLEAN, u \in {{}} \cup {{x} : x \in Dirs},
        m \in [Dirs -> Times],
        n \in [Dirs -> {<<>>} \cup {<<t>> : t \in Times}]}

\* datetime.now(), later than every modification time of the tree.
NowStamp == Cardinality(Times) + 1

\* end_time None stands for the current time.
end_timestamp(end_time) == IF end_time = <<>> THEN NowStamp ELSE end_time[1]

\* The check of a folder: an entry ending in .nfo and
\* start_timestamp <= os.path.getmtime(current_dir) < end_timestamp.
found_nfo_in_time(fs, current_dir, start, end) ==
    /\ fs.nfo[current_dir] # <<>>
    /\ start <= fs.mtime[current_dir]
    /\ fs.mtime[current_dir] < end

\* Variant of the check that reads the modification time of the .nfo file.
found_nfo_in_time_of_file(fs, current_dir, start, end) ==
    \E i \in DOMAIN fs.nfo[current_dir] :
        start <= fs.nfo[current_dir][i] /\ fs.nfo[current_dir][i] < end

Bfs(op, pc, queue, result_folders, visited) ==
    /\ work' = [work EXCEPT !.pc = pc, !.queue = queue,
                            !.result_folders = result_folders,
                            !.visited = visited]
    /\ last' = Call(op, <<>>, "", "", FALSE)
    /\ UNCHANGED <<disk, conn, rec, ctx, run, proc>>

\* Lines 633 to 669: the start directory and the interval.
BfsCall ==
    /\ work.pc = "call"
    /\ IF ~disk.isdir \/ work.start >= work.end
       THEN Bfs("bfs.call", "done", <<>>, <<>>, <<>>)
       ELSE Bfs("bfs.call", "loop", <<StartDir>>, <<>>, <<>>)

\* One turn of `while queue`: popleft, the check, the subfolders.
BfsVisit ==
    /\ work.pc = "loop" /\ work.queue # <<>>
    /\ LET current_dir == Head(work.queue)
       IN  IF current_dir \in disk.unlistable
           THEN Bfs("bfs.visit", "loop", Tail(work.queue),
                    work.result_folders, Append(work.visited, current_dir))
           ELSE IF found_nfo_in_time(disk, current_dir, work.start, work.end)
           THEN Bfs("bfs.visit", "loop", Tail(work.queue),
                    Append(work.result_folders, current_dir),
                    Append(work.visited, current_dir))
           ELSE \E o \in ListingOrders(SubDirs(current_dir)) :
                    Bfs("bfs.visit", "loop", Tail(work.queue) \o o,
                        work.result_folders,
                        Append(work.visited, current_dir))

\* return result_folders
BfsReturn ==
    /\ work.pc = "loop" /\ work.queue = <<>>
    /\ Bfs("bfs.return", "done", <<>>, work.result_folders, work.visited)

InitBfs ==
    /\ disk \in FileSystems
    /\ work \in {[pc |-> "call", start |-> s, end |-> end_timestamp(e),
                  queue |-> <<>>, result_folders |-> <<>>, visited |-> <<>>] :
                    s \in Times \cup {NowStamp},
                    e \in {<<>>} \cup {<<t>> : t \in Times \cup {NowStamp}}}
    /\ conn = "closed"
    /\ rec = NoScenes
    /\ last = Call("init", <<>>, "", "", FALSE)
    /\ ctx = [start |-> disk, commits |-> 0, end |-> "none"]
    /\ run = NoRun
    /\ proc = [p \in Procs |-> Idle]

Context == Enter \/ ExitCommit \/ ExitRollback \/ BlockRaises

\* The steps that resolve or create rows of other tables, and one of those
\* that set a column of the scene.
Steps ==
    \/ StepTitle \/ StepStudio \/ StepTags \/ StepGallery \/ StepGroups
    \/ StepPerformers

\* The steps that set a column of the scene.
Scalars ==
    \/ StepTitle \/ StepTitleBlank \/ StepDate \/ StepDirector \/ StepCover
    \/ StepCode

Daos ==
    \/ DaoScenesTagsInsert \/ DaoScenesTagsUpdateOrInsert
    \/ DaoPerformersScenesInsert \/ DaoScenesGalleriesInsert
    \/ DaoGroupsScenesAdd \/ DaoGroupsScenesInsert \/ DaoScenesFilesInsert

Next == Context \/ Steps

Spec == Init /\ [][Next]_vars

NextRun == Context \/ ProcessFolder

SpecRun == Init /\ [][NextRun]_vars


NextScalars == Context \/ Scalars

\* A scene as the scanner left it and one whose columns were set before.
SceneRow1 ==
    [title |-> OldTitle, date |-> Date0, studio_id |-> NoId,
     code |-> Code1, director |-> Ann, cover_blob |-> OldBlob]

ScalarCatalogues ==
    { [c EXCEPT !.scenes = [id \in SceneIds |-> row],
                !.blobs = IF row.cover_blob = NoneStr THEN {}
                          ELSE {row.cover_blob}] :
      c \in {d \in InitialCatalogues :
                 d.studios = <<>> /\ d.tags = <<>> /\ d.performers = <<>>},
      row \in {SceneRow0, SceneRow1} }

InitScalars ==
    /\ disk \in ScalarCatalogues
    /\ work = disk
    /\ conn = "closed"
    /\ rec = NoScenes
    /\ last = Call("init", <<>>, "", "", FALSE)
    /\ ctx = [start |-> disk, commits |-> 0, end |-> "none"]
    /\ run = NoRun
    /\ proc = [p \in Procs |-> Idle]

SpecScalars == InitScalars /\ [][NextScalars]_vars

\* Databases with no, one or two fanart folders of the code, with and
\* without galleries of these folders, the scene linked to a gallery or not.
GalleryCatalogues ==
    { [c EXCEPT !.folders = folders, !.galleries = galleries,
                !.scenes_galleries = IF linked THEN SetToBag({<<1, 1>>})
                                     ELSE EmptyBag] :
      c \in {d \in InitialCatalogues :
                 /\ d.studios = <<>> /\ d.tags = <<>> /\ d.performers = <<>>
                 /\ d.scenes_files # EmptyBag},
      folders \in {<<OtherPath>>, <<FanartPath>>, <<FanartPath, FanartPath2>>,
                   <<OtherPath, FanartPath2, FanartPath>>},
      galleries \in {<<>>, <<1>>, <<2>>, <<2, 1>>, <<3, 2>>},
      linked \in BOOLEAN }

InitGallery ==
    /\ disk \in GalleryCatalogues
    /\ work = disk
    /\ conn = "closed"
    /\ rec = NoScenes
    /\ last = Call("init", <<>>, "", "", FALSE)
    /\ ctx = [start |-> disk, commits |-> 0, end |-> "none"]
    /\ run = NoRun
    /\ proc = [p \in Procs |-> Idle]

NextGallery == Context \/ StepGallery \/ DaoScenesGalleriesInsert

SpecGallery == InitGallery /\ [][NextGallery]_vars

NextRace == Context \/ StepStudio \/ StepStudioLocked

SpecRace == Init /\ [][NextRace]_vars

Updates ==
    \/ UpdateScenes \/ UpdateStudios \/ UpdateTags \/ UpdatePerformers
    \/ UpdateGroups \/ UpdateFiles \/ UpdateFolders \/ UpdateGalleries
    \/ UpdateBlobs \/ UpdateScenesFiles

NextUpdate == Context \/ Updates

SpecUpdate == Init /\ [][NextUpdate]_vars

\* The steps that write to other tables, the cover step and whole runs, on
\* the catalogues that locate the scene of the media file.
NextFrame ==
    \/ Context \/ StepStudio \/ StepTags \/ StepGallery \/ StepGroups
    \/ StepPerformers \/ StepCover \/ ProcessFolder

InitFrame ==
    /\ Init
    /\ disk.scenes_files # EmptyBag

SpecFrame == InitFrame /\ [][NextFrame]_vars

NextCrud == CrudInsert \/ CrudGet \/ CrudUpdate \/ CrudDelete

SpecCrud == InitCrud /\ [][NextCrud]_vars

NextBfs == BfsCall \/ BfsVisit \/ BfsReturn

SpecBfs == InitBfs /\ [][NextBfs]_vars

NextConc ==
    \/ ConcEnter \/ ConcLookup \/ ConcInsert \/ ConcCommit \/ ConcUpdate
    \/ ConcRaises \/ ConcExit

SpecConc == Init /\ [][NextConc]_vars

NextDao == Context \/ Daos \/ ProcessFolder

\* The DAO calls start from the catalogues without studio and performer:
\* they read neither table.
InitDao ==
    /\ Init
    /\ disk.studios = <<>>
    /\ disk.performers = <<>>

SpecDao == InitDao /\ [][NextDao]_vars

(***************************************************************************)
(* Properties.                                                             *)
(***************************************************************************)
RunEnded == run.outcome # "none"

\* C1: in every run of process_folder on a folder whose scene the database
\* locates, the ten steps start one after the other in the order title,
\* date, studio, tags, gallery, director, cover, code, group, performers,
\* none of them twice.
C1_StepsStartInOrder ==
    (RunEnded /\ run.locatable) => run.started = StepOrder

\* C2: in every such run each of the ten steps is attempted, whatever the
\* steps before it did.
C2_EveryStepAttempted ==
    (RunEnded /\ run.locatable) =>
        \A i \in 1..Len(StepOrder) :
            \E j \in 1..Len(run.started) : run.started[j] = StepOrder[i]

\* C3: the transaction of a Database context is committed once, when the
\* context exits normally: nothing is committed while the block runs.
C3_SingleCommitAtExit ==
    /\ conn = "open" => ctx.commits = 0
    /\ ctx.end = "commit" => ctx.commits = 1

\* C4: when an exception leaves the with block, the committed database is
\* the one the context started from.
C4_FaultRollsBackEverything ==
    ctx.end = "rollback" => disk = ctx.start

NoNormalizedDuplicate(names) ==
    \A i, j \in 1..Len(names) : Norm(names[i]) = Norm(names[j]) => i = j

\* C5: no natural-key table holds two rows whose names are equal up to case
\* and surrounding blanks: resolving a name again, in another case or with
\* a trailing blank, creates no second row.
C5_ResolveCreatesNoSecondRow ==
    /\ NoNormalizedDuplicate(work.studios)
    /\ NoNormalizedDuplicate(work.tags)
    /\ NoNormalizedDuplicate(work.performers)
    /\ NoNormalizedDuplicate(work.groups)

TagRowCounts(db) == <<BagCardinality(db.scenes_tags), Len(db.tags)>>

\* C6: once the tag step has run with a genre list, running it again with
\* the same list leaves the numbers of scenes_tags rows and of tags rows as
\* the first run left them.
C6_TagSyncTwice ==
    last.op = "tags" =>
        \A info \in Descriptors :
            info.genres = last.arg =>
                TagRowCounts(update_scene_tags(work, rec, info).db)
                    = TagRowCounts(work)

\* The tag step has run with two genres on a database that holds a linked
\* tag.
C6_Witness ==
    /\ last.op = "tags" /\ last.arg = <<Drama, Comedy>>
    /\ work.tags # <<>> /\ work.scenes_tags # EmptyBag

KeepsRows(before, after) ==
    \A row \in BagToSet(before) : CopiesIn(row, after) >= CopiesIn(row, before)

\* C7: the tag step and the performer step delete no association: every
\* scenes_tags and performers_scenes row is still there after the step.
C7_SyncNeverDeletes ==
    [][last'.op \in {"tags", "performers"} =>
           /\ KeepsRows(work.scenes_tags, work'.scenes_tags)
           /\ KeepsRows(work.performers_scenes, work'.performers_scenes)]_vars

\* The performer step has created a performer and the association the scene
\* had before is still there.
C7_Witness ==
    /\ last.op = "performers" /\ last.ret = "True"
    /\ Len(work.performers) = 2
    /\ CopiesIn(<<1, 1>>, work.performers_scenes) = 1

\* C8: a run on a scene without studio and tags, with a descriptor that
\* names a studio and two genres, leaves the scene with the new studio, two
\* tags and two scenes_tags rows.
C8_ScenarioFirstRun ==
    (RunEnded /\ run.scenario) =>
        /\ Len(disk.studios) = 1
        /\ disk.scenes[1].studio_id = 1
        /\ Len(disk.tags) = 2
        /\ BagCardinality(disk.scenes_tags) = 2

AssociationTables(db) ==
    <<db.scenes_tags, db.performers_scenes, db.groups_scenes,
      db.scenes_galleries, db.scenes_files>>

\* Number of rows of the table with the composite key.
KeyCount(table, key) ==
    BagCardinality([r \in RowsWithKey(table, key) |-> table[r]])

C10_DuplicateInsertIsNoOp ==
    [][last'.dup => (work' = work /\ last'.exc = "")]_vars

Blank(v) == v \in {NoneStr, <<>>}

\* C11: a director step whose descriptor has no director, or an empty one,
\* returns False and leaves the director of the Scenes object and the
\* scenes rows, in the transaction and committed, as they were.
C11_DirectorGuard ==
    [][(last'.op = "director" /\ Blank(last'.arg[1])) =>
           /\ last'.ret = "False" /\ last'.exc = ""
           /\ rec'.director = rec.director
           /\ work'.scenes = work.scenes
           /\ disk'.scenes = disk.scenes]_vars

\* The director step has run without a director on a scene that has one.
C11_Witness ==
    /\ last.op = "director" /\ last.arg = <<NoneStr>> /\ last.ret = "False"
    /\ rec.director = Ann /\ work.scenes[1].director = Ann

\* The column of the scenes row a scalar step writes, and the one of the
\* Scenes object.
StepColumn(row, op) ==
    CASE op = "title" -> row.title
      [] op = "date" -> row.date
      [] op = "code" -> row.code
      [] op = "director" -> row.director

\* C12: a title, date or code step whose descriptor value is None or empty
\* assigns it to the Scenes object, writes it to the scenes row and returns
\* True.
C12_BlankOverwrites ==
    [][(last'.op \in {"title", "date", "code"} /\ Blank(last'.arg[1])) =>
           /\ last'.ret = "True"
           /\ StepColumn(rec', last'.op) = last'.arg[1]
           /\ StepColumn(work'.scenes[rec.id], last'.op) = last'.arg[1]]_vars

\* C13: a cover step whose image path does not exist returns False, leaves
\* cover_blob of the Scenes object as it was and creates no blobs row.
C13_MissingCover ==
    [][(last'.op = "cover" /\ ~last'.arg[1].exists) =>
           /\ last'.ret = "False" /\ last'.exc = ""
           /\ rec'.cover_blob = rec.cover_blob
           /\ work'.blobs = work.blobs /\ work'.scenes = work.scenes
           /\ disk' = disk]_vars

\* The cover step has run on a path that does not exist, for a scene that
\* has a cover.
C13_Witness ==
    /\ last.op = "cover" /\ ~last.arg[1].exists /\ last.ret = "False"
    /\ rec.cover_blob = OldBlob /\ work.blobs = {OldBlob}

\* C14: after a cover step that returned True, cover_blob of the scenes row
\* is the MD5 of the image and a blobs row of that checksum exists.
C14_CoverSuccessPersists ==
    (last.op = "cover" /\ last.ret = "True") =>
        /\ work.scenes[rec.id].cover_blob = last.arg[1].md5
        /\ last.arg[1].md5 \in work.blobs

\* C18: no exception leaves a scalar step or the cover step, and a step in
\* which ScenesDAO.update raised returns False.
C18_StepErrorsBecomeFalse ==
    [][last'.op \in {"title", "date", "director", "cover", "code"} =>
           /\ last'.exc = ""
           /\ last'.ret = "True" => ScenesDAO_update(work, rec').exc = ""]_vars

\* The galleries rows of the lowest folders row that matches the code.
GalleriesOfCode(db, uniqueid) ==
    LET folders == FoldersLike(db, FanartToken(uniqueid))
    IN  IF folders = <<>> THEN <<>>
        ELSE GalleriesDAO_get_by_folder_id(db, Head(folders))

\* C15: when several folders rows match the code, the gallery step uses the
\* one with the lowest id: it ends with the scene linked to the first
\* gallery of that folder.
C15_LowestIdWins ==
    [][(/\ last'.op = "gallery"
        /\ Len(FoldersLike(work, FanartToken(last'.arg[1]))) > 1
        /\ GalleriesOfCode(work, last'.arg[1]) # <<>>) =>
           /\ last'.exc = "" /\ last'.ret = "True"
           /\ HasKey(work'.scenes_galleries,
                     <<rec.id, Head(GalleriesOfCode(work, last'.arg[1]))>>)]_vars

\* C16: a gallery step that finds no folder of the code, or no gallery of
\* the folder, returns False, raises nothing and writes nothing.
C16_GalleryNotFound ==
    [][(last'.op = "gallery" /\ GalleriesOfCode(work, last'.arg[1]) = <<>>) =>
           /\ last'.ret = "False" /\ last'.exc = ""
           /\ work' = work /\ disk' = disk]_vars

\* Number of steps that returned False.
NumFalse(results) == Cardinality({i \in 1..Len(results) : results[i] = "False"})

\* C17: a run on a folder whose scene the database locates ends with the
\* failure count reported, and the count is the number of steps of the run,
\* the cover step included, that returned False.
C17_FailureCount ==
    (RunEnded /\ run.locatable) =>
        /\ run.outcome = "done"
        /\ run.failed = NumFalse(run.results)

UpdateOps ==
    {"scenes.update", "studios.update", "tags.update", "performers.update",
     "groups.update", "files.update", "folders.update", "galleries.update",
     "blobs.update_blob", "scenes_files.update"}

\* C19: update of a DAO called with an object whose identifier is None
\* raises ValueError and leaves every table as it was.
C19_UpdateRequiresId ==
    [][(last'.op \in UpdateOps /\ last'.arg[1] = NoId) =>
           (last'.exc = "ValueError" /\ work' = work /\ disk' = disk)]_vars

\* C20: when the lookup of the studio finds nothing and the creation fails
\* while the row comes to exist, the studio step looks the name up again
\* and gives the Scenes object the id of that row.
C20_RequeryAfterFailedCreate ==
    [][last'.op = "studio_locked" =>
           /\ StudiosDAO_get_by_name(work', last'.arg[1]) # NoId
           /\ rec'.studio_id = StudiosDAO_get_by_name(work', last'.arg[1])]_vars

\* Number of rows of a natural-key table that hold the name.
NameCount(names, name) ==
    Cardinality({i \in 1..Len(names) : names[i] = name})

\* C21: when two processes have both run the statements of the studio step
\* for the same name, both lookups having found no row of it, and both have
\* left their Database context, the studios table holds one row of the name
\* and both processes hold its id.
C21_ConcurrentResolveOneRow ==
    \A p, q \in Procs :
        (/\ p # q
         /\ proc[p].pc = "done" /\ proc[q].pc = "done"
         /\ proc[p].job = "studio" /\ proc[q].job = "studio"
         /\ proc[p].name = proc[q].name
         /\ ~proc[p].found /\ ~proc[q].found) =>
            /\ NameCount(disk.studios, proc[p].name) = 1
            /\ proc[p].id # NoId
            /\ proc[p].id = proc[q].id

\* The jobs that link the scene to a tag or to a performer.
AssocJobs == {"scenes_tags", "performers_scenes"}

\* Number of rows of the pair (1, 1) in the association table of the job.
PairCount(db, job) ==
    IF job = "scenes_tags" THEN CopiesIn(<<1, 1>>, db.scenes_tags)
    ELSE CopiesIn(<<1, 1>>, db.performers_scenes)

\* The insert of the process met the row of the pair, not the write lock.
MetConstraint(me) ==
    /\ me.pc \in {"exit", "fault", "done"}
    /\ ~me.found /\ ~me.locked /\ me.ret \in {"False", "0"}

\* C22: when two processes have both looked the pair up without finding it
\* and have both called insert, the later insert meeting the row of the
\* earlier one, the association table holds one row of the pair, committed
\* and as both connections see it; and no insert of a pair raises.
C22_ConcurrentInsertOnePair ==
    /\ (last.op = "conc.insert" /\ proc[last.arg[1]].job \in AssocJobs) =>
           (last.exc = "" /\ proc[last.arg[1]].pc = "exit")
    /\ \A p, q \in Procs :
           (/\ p # q
            /\ proc[p].job \in AssocJobs /\ proc[q].job = proc[p].job
            /\ ~proc[q].found /\ proc[q].pc \in {"exit", "fault", "done"}
            /\ MetConstraint(proc[p])) =>
               /\ PairCount(disk, proc[p].job) = 1
               /\ PairCount(View(disk, proc[p]), proc[p].job) = 1
               /\ PairCount(View(disk, proc[q]), proc[p].job) = 1

\* Two processes have linked the scene to the tag, both after a lookup that
\* found nothing; the later insert returned False and both have committed.
C22_Witness ==
    /\ \A p \in Procs :
           /\ proc[p].job = "scenes_tags" /\ proc[p].pc = "done"
           /\ proc[p].end = "commit" /\ ~proc[p].found
    /\ proc[1].ret = "True"
    /\ MetConstraint(proc[2])
    /\ CopiesIn(<<1, 1>>, disk.scenes_tags) = 1

\* The ids of the scenes, folders, galleries and files rows and the keys of
\* the scenes_files rows.
FrameKeys(db) ==
    <<DOMAIN db.scenes, DOMAIN db.folders, DOMAIN db.galleries,
      DOMAIN db.files, {KeyOf(row) : row \in BagToSet(db.scenes_files)}>>

RunOps == {StepOrder[i] : i \in 1..Len(StepOrder)} \cup {"process_folder"}

\* C23: no step and no run of process_folder creates or deletes a scenes,
\* folders, galleries, files or scenes_files row, in the transaction or
\* committed.
C23_RunKeepsCatalogue ==
    [][last'.op \in RunOps =>
           /\ FrameKeys(work') = FrameKeys(work)
           /\ FrameKeys(disk') = FrameKeys(disk)]_vars

\* A context in which a step created and committed a studio has ended, and
\* then a run on a folder whose scene the database locates.
C23_Witness ==
    /\ last.op = "process_folder" /\ run.locatable
    /\ Len(disk.studios) > Len(ctx.start.studios)
    /\ FrameKeys(disk) = FrameKeys(ctx.start)

\* C24: the group step, called with a descriptor that carries no set,
\* returns False, raises nothing, leaves the groups and groups_scenes
\* tables as they were, and the with block goes on to the performer step.
C24_GroupStepNoOp ==
    [][last'.op = "group" =>
           /\ last'.ret = "False" /\ last'.exc = ""
           /\ work'.groups = work.groups
           /\ work'.groups_scenes = work.groups_scenes
           /\ conn' = "open"]_vars

\* C25: a cover step that ingests the file the context has ingested before
\* leaves cover_blob of the Scenes object and of the scenes row as the first
\* ingestion left them, and the blobs table holds the row of the checksum.
C25_CoverTwice ==
    [][(/\ last'.op = "cover" /\ last'.ret = "True"
        /\ rec.cover_blob = last'.arg[1].md5) =>
           /\ rec'.cover_blob = rec.cover_blob
           /\ work'.scenes[rec.id].cover_blob = work.scenes[rec.id].cover_blob
           /\ work'.scenes[rec.id].cover_blob = last'.arg[1].md5
           /\ last'.arg[1].md5 \in work'.blobs]_vars

\* C26: after an insert of a DAO that stored a row, the lookup by the key
\* returns the columns of the object that was inserted; after an update
\* that changed a row, the lookup returns the columns of the object it was
\* given; after a delete, the lookup returns nothing and get_all does not
\* hold the key.
C26_DaoRoundTrip ==
    /\ (last.op = "crud.insert" /\ last.ret = "True") =>
           /\ DAO_get_by_id(work.kind, work.table, last.arg[1]).found
           /\ DAO_get_by_id(work.kind, work.table, last.arg[1]).obj
                  = last.arg[2]
    /\ (last.op = "crud.update" /\ last.ret = "1") =>
           /\ DAO_get_by_id(work.kind, work.table, last.arg[1]).found
           /\ DAO_get_by_id(work.kind, work.table, last.arg[1]).obj
                  = last.arg[2]
    /\ (last.op = "crud.delete" /\ last.exc = "") =>
           /\ ~DAO_get_by_id(work.kind, work.table, last.arg[1]).found
           /\ last.arg[1] \notin DAO_get_all(work.kind, work.table)

\* Every genre has a tags row of its name that a scenes_tags row joins to
\* the scene.
GenresLinked(db, scene_id, genres) ==
    \A i \in 1..Len(genres) :
        \E t \in 1..Len(db.tags) :
            /\ db.tags[t] = genres[i]
            /\ HasKey(db.scenes_tags, <<scene_id, t>>)

\* C27: a tag step that returns True leaves every genre of the descriptor
\* linked to the scene, and a tag step after which some genre is not
\* linked to the scene has returned False.
C27_TagsLinkedOrFailure ==
    (last.op = "tags" /\ last.arg # <<>>) =>
        /\ last.ret = "True" => GenresLinked(work, rec.id, last.arg)
        /\ ~GenresLinked(work, rec.id, last.arg) => last.ret = "False"

\* The column of the scenes row that a scalar step assigns.
OwnField ==
    [title |-> "title", date |-> "date", code |-> "code",
     director |-> "director", cover |-> "cover_blob"]

OtherFields(op) ==
    {"title", "date", "studio_id", "code", "director", "cover_blob"}
        \ {OwnField[op]}

\* C28: a scalar step (title, date, code, director, cover), whatever it
\* returns and whatever the steps before it assigned to the scene record,
\* leaves every column of the scenes row other than its own as it was, in
\* the connection and in the file.
C28_ScalarStepsIndependent ==
    [][last'.op \in DOMAIN OwnField =>
           \A f \in OtherFields(last'.op) :
               /\ work'.scenes[rec.id][f] = work.scenes[rec.id][f]
               /\ disk'.scenes[rec.id][f] = disk.scenes[rec.id][f]]_vars

\* The cover step has returned True after a title step that returned False
\* with its title assigned to the record: the row still holds the title it
\* had.
C28_Witness ==
    /\ last.op = "cover" /\ last.ret = "True"
    /\ rec.title # work.scenes[rec.id].title
    /\ work.scenes[rec.id].title = ctx.start.scenes[rec.id].title
    /\ disk.scenes[rec.id].title = ctx.start.scenes[rec.id].title

\* C29: a call of process_folder that finds a media file in the folder but
\* no files row of its basename, no scenes_files row of that file or no
\* scenes row of that id starts no step, leaves the database file as it
\* was and returns without an exception.
C29_LocateFailureEndsQuietly ==
    [][(/\ last'.op = "process_folder"
        /\ run'.outcome \notin {"not_dir", "nfo_error", "no_media"}
        /\ ~run'.locatable) =>
           /\ run'.started = <<>>
           /\ disk' = disk
           /\ run'.exc = ""]_vars

Range(seq) == {seq[i] : i \in DOMAIN seq}

\* C30: when the call has returned, no folder is twice in the result, the
\* result holds exactly the visited folders that could be listed and hold a
\* .nfo file whose own modification time is in [start_time, end_time), no
\* subfolder of a returned folder was visited, and the result is empty when
\* start_time >= end_time.
C30_BfsResult ==
    work.pc = "done" =>
        /\ Len(work.result_folders) = Cardinality(Range(work.result_folders))
        /\ Range(work.result_folders) =
               {d \in Range(work.visited) \ disk.unlistable :
                    found_nfo_in_time_of_file(disk, d, work.start, work.end)}
        /\ \A d \in Range(work.result_folders) :
               SubDirs(d) \cap Range(work.visited) = {}
        /\ work.start >= work.end => work.result_folders = <<>>

====
